---- MODULE Spec2Model ----
(***************************************************************************)
(* A model of PyMsBayes' worker layer (pymsbayes/workers.py), its running  *)
(* statistics accumulator (pymsbayes/utils/stats.py) and the part of the   *)
(* dmc.py command line driver that builds and runs workers.                *)
(*                                                                         *)
(* The module holds one group of variables per component and one           *)
(* specification per component; a component's actions leave the other      *)
(* components' variables unchanged.                                        *)
(*   SpecStats   SampleSummarizer                                          *)
(*   SpecWorker  Worker.run in the child process, Worker.finish in the     *)
(*               parent                                                    *)
(*   SpecLog     Worker.send_msg and the shared lock around the log        *)
(*   SpecCtor    MsBayesWorker.__init__, the class counters and the temp   *)
(*               storage the constructed workers share                     *)
(*   SpecPool    Manager.run_workers as dmc.py calls it                    *)
(*   SpecCmd     the command line MsBayesWorker.__init__ builds            *)
(*   SpecClassify  the header patterns, get_*_indices, prior_for_msreject  *)
(*   SpecPost    MsBayesWorker._post_process and _finish                   *)
(*   SpecCli     the observed-data and analysis stages of main_cli         *)
(***************************************************************************)
EXTENDS Integers, Sequences, FiniteSets, TLC

\* Python's None and a present value v: None is <<>>, v is <<v>>, so that a
\* field that holds "None or an integer" can be compared without a type clash.
None == <<>>
Some(v) == <<v>>
ValueOf(o) == o[1]

VARIABLES
    summarizer,     \* the SampleSummarizer object: _min, _max, _n, _sum, _sum_of_squares
    added,          \* history: the samples passed to add_sample so far, in order
    worker,         \* Worker objects by id: fields, child position, result queue
    lock,           \* _LOCK: None when free, else the worker process holding it
    sender,         \* by worker: where it is in send_msg, and what it has logged
    total,          \* Worker.total
    count,          \* MsBayesWorker.count
    temp_dirs,      \* the subdirectories created in the shared TempFileSystem
    built,          \* the MsBayesWorker objects constructed so far, in order
    last,           \* the latest constructor call: its arguments and its outcome
    manager,        \* a Manager.run_workers call: num_processors, the workers not
                    \* yet admitted, and how the call has ended
    job,            \* by submitted worker: queued, active, postprocessing,
                    \* completed or raised
    random_draws,   \* the number of get_random_int() calls made so far
    cmd_call,       \* the latest MsBayesWorker construction whose command line is
                    \* looked at: its arguments and the object
    table,          \* a raw table's header and the rule sets it is classified with
    classes,        \* the parameter, stat and dummy indices of the header, once computed
    projection,     \* what prior_for_msreject selected and returned, once called
    disk,           \* the files at an MsBayesWorker's prior_path, prior_path + '.raw' and
                    \* header_path: None when absent, else the content
    msw,            \* the MsBayesWorker after its subprocess: patterns, header fields, and
                    \* where it is between _post_process and _finish
    cli,            \* a run of dmc.py's main_cli: its arguments, where it is, the observed
                    \* workers it built, the merged row counts, and how it ended
    storage         \* the run's TempFileSystems: temp_fs and observed_temp_fs, each
                    \* absent, live or purged

statsVars == <<summarizer, added>>
workerVars == <<worker>>
logVars == <<lock, sender>>
ctorVars == <<total, count, temp_dirs, built, last>>
poolVars == <<manager, job>>
cmdVars == <<random_draws, cmd_call>>
classifyVars == <<table, classes, projection>>
postVars == <<disk, msw>>
cliVars == <<cli, storage>>

vars == <<summarizer, added, worker, lock, sender, total, count, temp_dirs, built, last,
          manager, job,
          random_draws, cmd_call,
          table, classes, projection,
          disk, msw,
          cli, storage>>

\* What an action of one component leaves alone: the other components.
StatsFrame == UNCHANGED <<workerVars, logVars, ctorVars, poolVars, cmdVars, classifyVars, postVars, cliVars>>
WorkerFrame == UNCHANGED <<statsVars, logVars, ctorVars, poolVars, cmdVars, classifyVars, postVars, cliVars>>
LogFrame == UNCHANGED <<statsVars, workerVars, ctorVars, poolVars, cmdVars, classifyVars, postVars, cliVars>>
CtorFrame == UNCHANGED <<statsVars, workerVars, logVars, poolVars, cmdVars, classifyVars, postVars, cliVars>>
PoolFrame == UNCHANGED <<statsVars, workerVars, logVars, ctorVars, cmdVars, classifyVars, postVars, cliVars>>
CmdFrame == UNCHANGED <<statsVars, workerVars, logVars, ctorVars, poolVars, classifyVars, postVars, cliVars>>
ClassifyFrame == UNCHANGED <<statsVars, workerVars, logVars, ctorVars, poolVars, cmdVars, postVars, cliVars>>
PostFrame == UNCHANGED <<statsVars, workerVars, logVars, ctorVars, poolVars, cmdVars, classifyVars, cliVars>>
CliFrame == UNCHANGED <<statsVars, workerVars, logVars, ctorVars, poolVars, cmdVars, classifyVars, postVars>>

\* A component at rest, for the specifications of the other components.
WorkerIdle == worker = <<>>
LogIdle == lock = None /\ sender = <<>>
CtorIdle == total = 0 /\ count = 0 /\ temp_dirs = {} /\ built = <<>> /\ last = None
PoolIdle == manager = None /\ job = <<>>
CmdIdle == random_draws = 0 /\ cmd_call = None
ClassifyIdle == table = None /\ classes = None /\ projection = None
PostIdle == disk = None /\ msw = None
CliIdle == cli = None /\ storage = None

----------------------------------------------------------------------------
(***************************************************************************)
(* SampleSummarizer (pymsbayes/utils/stats.py)                             *)
(***************************************************************************)

\* Largest absolute value of a sample, longest history, longest update_samples batch.
MaxAbsSample == 2
MaxSamples == 3
MaxBatch == 2

SampleValues == (0 - MaxAbsSample)..MaxAbsSample

\* Python truthiness of a field holding None or an integer: None and 0 are falsy.
Falsy(o) == o = None \/ o = Some(0)

\* SampleSummarizer.__init__
NewSummarizer ==
    [_min |-> None, _max |-> None, _n |-> 0, _sum |-> 0, _sum_of_squares |-> 0]

\* The _min update of add_sample: "if not self._min ... elif x < self._min".
UpdateMin(cur, x) ==
    IF Falsy(cur) THEN Some(x)
    ELSE IF x < ValueOf(cur) THEN Some(x)
    ELSE cur

\* The _max update of add_sample: "if not self._max ... elif x > self._max".
UpdateMax(cur, x) ==
    IF Falsy(cur) THEN Some(x)
    ELSE IF x > ValueOf(cur) THEN Some(x)
    ELSE cur

\* add_sample as a function of the object's state.
AddSample(s, x) ==
    [_min |-> UpdateMin(s._min, x),
     _max |-> UpdateMax(s._max, x),
     _n |-> s._n + 1,
     _sum |-> s._sum + x,
     _sum_of_squares |-> s._sum_of_squares + x * x]

\* update_samples: add_sample on each element, in order.
RECURSIVE UpdateSamples(_, _)
UpdateSamples(s, xs) ==
    IF xs = <<>> THEN s
    ELSE UpdateSamples(AddSample(s, Head(xs)), Tail(xs))

\* The minimum and maximum properties.
minimum == summarizer._min
maximum == summarizer._max

\* The derived values are floats. A float is modelled as the exact fraction
\* num/den (den > 0) it approximates, as +infinity, or, under a square root,
\* as the root of a fraction; a division by zero is Python's ZeroDivisionError.
Frac(num, den) == [kind |-> "number", num |-> num, den |-> den]
Infinity == [kind |-> "inf", num |-> 1, den |-> 0]
ZeroDivisionError == [kind |-> "ZeroDivisionError", num |-> 0, den |-> 0]

\* float(i), a * i, i - a and a / i for a float a and an integer i.
Float(i) == Frac(i, 1)
FTimes(a, i) == Frac(a.num * i, a.den)
FMinusFrom(i, a) == Frac(i * a.den - a.num, a.den)
FDiv(a, i) ==
    IF a.kind # "number" THEN a
    ELSE IF i = 0 THEN ZeroDivisionError
    ELSE IF i < 0 THEN Frac(0 - a.num, a.den * (0 - i))
    ELSE Frac(a.num, a.den * i)

\* math.sqrt.
FSqrt(a) ==
    IF a.kind = "number" THEN [kind |-> "sqrt", num |-> a.num, den |-> a.den]
    ELSE a

\* Two floats are the same number.
FEq(a, b) == a.kind = b.kind /\ a.num * b.den = b.num * a.den

\* A mean that divides the integer sum by n without converting it to a float
\* first (Python 2's integer division rounds down).
MeanOfIntegerSum(s) == IF s._n < 1 THEN None ELSE Some(Float(s._sum \div s._n))

\* _get_mean (lines 52-55).
Mean(s) == IF s._n < 1 THEN None ELSE Some(FDiv(Float(s._sum), s._n))

\* A variance without the n = 1 case.
VarianceWithoutN1(s) ==
    IF s._n < 1 THEN None
    ELSE Some(FDiv(FMinusFrom(s._sum_of_squares, FTimes(ValueOf(Mean(s)), s._sum)),
                   s._n - 1))

\* _get_variance (lines 57-62).
Variance(s) ==
    IF s._n < 1 THEN None
    ELSE IF s._n = 1 THEN Some(Infinity)
    ELSE Some(FDiv(FMinusFrom(s._sum_of_squares, FTimes(ValueOf(Mean(s)), s._sum)),
                   s._n - 1))

\* _get_std_dev (lines 64-67).
StdDev(s) == IF s._n < 1 THEN None ELSE Some(FSqrt(ValueOf(Variance(s))))

\* _get_pop_variance (lines 69-72).
PopVariance(s) ==
    IF s._n < 1 THEN None
    ELSE Some(FDiv(FMinusFrom(s._sum_of_squares, FTimes(ValueOf(Mean(s)), s._sum)),
                   s._n))

\* The n (here nSamples), mean, variance, pop_variance and std_deviation properties.
nSamples == summarizer._n
mean == Mean(summarizer)
variance == Variance(summarizer)
pop_variance == PopVariance(summarizer)
std_deviation == StdDev(summarizer)

\* Sequences over S of length 1..n.
RECURSIVE SeqsUpTo(_, _)
SeqsUpTo(S, n) ==
    IF n = 0 THEN {}
    ELSE LET shorter == SeqsUpTo(S, n - 1)
         IN  {<<x>> : x \in S} \cup shorter
             \cup {Append(q, x) : q \in shorter, x \in S}

StatsInit ==
    /\ summarizer = NewSummarizer
    /\ added = <<>>

\* The summarizer at rest, for the specifications of the other components.
StatsIdle == StatsInit

add_sample(x) ==
    /\ Len(added) < MaxSamples
    /\ summarizer' = AddSample(summarizer, x)
    /\ added' = Append(added, x)
    /\ StatsFrame

update_samples(xs) ==
    /\ Len(added) + Len(xs) <= MaxSamples
    /\ summarizer' = UpdateSamples(summarizer, xs)
    /\ added' = added \o xs
    /\ StatsFrame

StatsAddSample == \E x \in SampleValues : add_sample(x)

StatsUpdateSamples == \E xs \in SeqsUpTo(SampleValues, MaxBatch) : update_samples(xs)

StatsNext == StatsAddSample \/ StatsUpdateSamples

SpecStatsInit == StatsInit /\ WorkerIdle /\ LogIdle /\ CtorIdle /\ PoolIdle /\ CmdIdle /\ ClassifyIdle /\ PostIdle /\ CliIdle

SpecStats == SpecStatsInit /\ [][StatsNext]_vars

\* The smallest and the largest element of a non-empty sequence of integers.
SmallestOf(q) == CHOOSE m \in {q[i] : i \in DOMAIN q} : \A j \in DOMAIN q : m <= q[j]
LargestOf(q) == CHOOSE m \in {q[i] : i \in DOMAIN q} : \A j \in DOMAIN q : m >= q[j]

\* The sum of a sequence of integers, and of their squares.
RECURSIVE SumOf(_)
SumOf(q) == IF q = <<>> THEN 0 ELSE Head(q) + SumOf(Tail(q))
RECURSIVE SumOfSquares(_)
SumOfSquares(q) == IF q = <<>> THEN 0 ELSE Head(q) * Head(q) + SumOfSquares(Tail(q))

\* C11: with no sample, mean, variance, pop_variance and std_deviation are
\* None; with one sample, whatever its value, variance is +infinity (not an
\* error, not another number) and pop_variance is 0.
C11_SmallNConventions ==
    /\ nSamples = 0 =>
           /\ mean = None
           /\ variance = None
           /\ pop_variance = None
           /\ std_deviation = None
    /\ nSamples = 1 =>
           /\ variance = Some(Infinity)
           /\ pop_variance # None
           /\ FEq(ValueOf(pop_variance), Float(0))

\* C11's case: exactly one sample, and not 0, has been added.
C11_Witness == Len(added) = 1 /\ added[1] # 0 /\ nSamples = 1

\* C12: n is the number of samples added, the running sum their sum and the
\* running sum of squares the sum of their squares, whether they came through
\* add_sample or update_samples; so mean * n is the sum and, from two samples
\* on, variance * (n - 1) * n is n * (sum of squares) - sum^2.
C12_RunningSumsMatchHistory ==
    /\ nSamples = Len(added)
    /\ summarizer._sum = SumOf(added)
    /\ summarizer._sum_of_squares = SumOfSquares(added)
    /\ nSamples >= 1 => FEq(FTimes(ValueOf(mean), nSamples), Float(SumOf(added)))
    /\ nSamples >= 2 =>
           FEq(FTimes(ValueOf(variance), (nSamples - 1) * nSamples),
               Float(nSamples * SumOfSquares(added) - SumOf(added) * SumOf(added)))

\* C12's case: three samples of mixed sign, with a non-zero variance.
C12_Witness ==
    /\ Len(added) = 3
    /\ \E i, j \in DOMAIN added : added[i] < 0 /\ added[j] > 0
    /\ nSamples = 3

\* C10: after at least one add_sample, minimum is the smallest and maximum the
\* largest of all the samples added so far.
C10_MinMaxAreExtremes ==
    added # <<>> =>
        /\ minimum = Some(SmallestOf(added))
        /\ maximum = Some(LargestOf(added))

----------------------------------------------------------------------------
(***************************************************************************)
(* Worker (pymsbayes/workers.py): run() in the child process that start()  *)
(* forks, finish() in the parent. Each worker has its own result queue.    *)
(***************************************************************************)

\* Number of workers, largest exit code of the external process.
NumWorkers == 2
MaxExitCode == 2

WorkerIds == 1..NumWorkers
ExitCodes == 0..MaxExitCode

\* What the external process may write to its error stream.
ErrTexts == {"", "boom"}

\* The process name and the pid that start() gives the child.
NameOf(w) == w
PidOf(w) == NumWorkers + w

\* Worker.__init__: the fields, the (empty) queue, and where run() and finish() are.
\*   pc      created | started | running | postprocessing | done | failed
\*   fpc     idle | waiting (blocked in queue.get) | returned
\*   path    history: the values pc has taken, in order
NewWorker(w, has_stderr_path) ==
    [name |-> NameOf(w),
     pid |-> None,
     stderr_path |-> has_stderr_path,
     stderr_file |-> None,
     stderr_pipe |-> None,
     queue |-> <<>>,
     finished |-> FALSE,
     subprocess_exit_code |-> None,
     pc |-> "created",
     fpc |-> "idle",
     exit_code |-> None,
     error |-> None,
     path |-> <<"created">>,
     spawned |-> 0,
     puts |-> 0,
     gets |-> 0,
     post_runs |-> 0]

WorkerInit ==
    \E cfg \in [WorkerIds -> BOOLEAN] :
        worker = [w \in WorkerIds |-> NewWorker(w, cfg[w])]

\* The worker record moved to position p.
At(r, p) == [r EXCEPT !.pc = p, !.path = Append(r.path, p)]

\* A run() that goes on to the result and the post-processing whatever the exit code.
ExitOkUnchecked(code) == TRUE

\* "if exit_code != 0" (line 227) negated: the exit code lets run() go on.
ExitOk(code) == code = 0

\* The error output run() holds when it reports a failure: read back from
\* stderr_path when one was supplied (line 229), else what communicate() returned.
CapturedStderr(r) == IF r.stderr_path THEN r.stderr_file ELSE r.stderr_pipe

\* What run() raises on a non-zero exit code (lines 227-232). Line 230 calls the
\* bare name send_error, which is no global of the module (the method is
\* self.send_error): evaluating it raises NameError, so the raise of
\* WorkerExecutionError on line 231 is never reached.
FailureError(r, stderr) ==
    [type |-> "NameError", name |-> None, pid |-> None, stderr |-> None]

\* The WorkerExecutionError of lines 231-232, its message's three fields.
WorkerExecutionError(r, stderr) ==
    [type |-> "WorkerExecutionError", name |-> Some(r.name), pid |-> r.pid,
     stderr |-> stderr]

\* What run() re-raises when _post_process raised (lines 237-242).
PostProcessError == [type |-> "PostProcessError", name |-> None, pid |-> None,
                     stderr |-> None]

\* start(): the child is forked and run() logs its command line (lines 207-208).
WorkerStart(w) ==
    /\ worker[w].pc = "created"
    /\ worker' = [worker EXCEPT ![w] = [At(@, "started") EXCEPT !.pid = Some(PidOf(w))]]
    /\ WorkerFrame

\* run(), lines 209-220: the output files are opened and Popen spawns the process.
WorkerSpawn(w) ==
    /\ worker[w].pc = "started"
    /\ worker' = [worker EXCEPT ![w] = [At(@, "running") EXCEPT !.spawned = @ + 1]]
    /\ WorkerFrame

\* run(), lines 221-234: communicate() and wait() return once the process has
\* exited with `code`, having written `text` to its error stream (to the file of
\* stderr_path when one was supplied, else to the pipe; communicate() returns
\* None for a stream that is not a pipe). A non-zero code raises; otherwise the
\* result is put on the queue and _post_process begins.
WorkerProcessExit(w, code, text) ==
    /\ worker[w].pc = "running"
    /\ LET r == worker[w]
           r1 == [r EXCEPT !.exit_code = Some(code),
                           !.stderr_file = IF r.stderr_path THEN Some(text) ELSE None,
                           !.stderr_pipe = IF r.stderr_path THEN None ELSE Some(text)]
       IN  worker' = [worker EXCEPT ![w] =
               IF ExitOk(code)
               THEN [At(r1, "postprocessing") EXCEPT
                        !.queue = Append(@, [exit_code |-> code]),
                        !.puts = @ + 1,
                        !.post_runs = @ + 1]
               ELSE [At(r1, "failed") EXCEPT
                        !.error = Some(FailureError(r1, CapturedStderr(r1)))]]
    /\ WorkerFrame

\* run(), lines 235-236: _post_process returns and run() ends.
WorkerPostProcessOk(w) ==
    /\ worker[w].pc = "postprocessing"
    /\ worker' = [worker EXCEPT ![w] = At(@, "done")]
    /\ WorkerFrame

\* run(), lines 237-242: _post_process raises; the error is logged and re-raised.
WorkerPostProcessRaise(w) ==
    /\ worker[w].pc = "postprocessing"
    /\ worker' = [worker EXCEPT ![w] = [At(@, "failed") EXCEPT !.error = Some(PostProcessError)]]
    /\ WorkerFrame

\* finish() is called in the parent and blocks in queue.get() (line 245).
WorkerFinishCall(w) ==
    /\ worker[w].fpc = "idle"
    /\ worker' = [worker EXCEPT ![w].fpc = "waiting"]
    /\ WorkerFrame

\* finish(), lines 245-248: queue.get() returns a message; the fields are set,
\* _finish runs and finish() returns.
WorkerFinishGet(w) ==
    /\ worker[w].fpc = "waiting"
    /\ worker[w].queue # <<>>
    /\ worker' = [worker EXCEPT ![w] =
           [@ EXCEPT !.subprocess_exit_code = Some(Head(worker[w].queue).exit_code),
                     !.finished = TRUE,
                     !.queue = Tail(@),
                     !.gets = @ + 1,
                     !.fpc = "returned"]]
    /\ WorkerFrame

WorkerNext ==
    \E w \in WorkerIds :
        \/ WorkerStart(w)
        \/ WorkerSpawn(w)
        \/ \E code \in ExitCodes, text \in ErrTexts : WorkerProcessExit(w, code, text)
        \/ WorkerPostProcessOk(w)
        \/ WorkerPostProcessRaise(w)
        \/ WorkerFinishCall(w)
        \/ WorkerFinishGet(w)

SpecWorkerInit == WorkerInit /\ StatsIdle /\ LogIdle /\ CtorIdle /\ PoolIdle /\ CmdIdle /\ ClassifyIdle /\ PostIdle /\ CliIdle

SpecWorker == SpecWorkerInit /\ [][WorkerNext]_vars

\* run() has ended for worker w, by returning or by raising.
RunEnded(w) == worker[w].pc \in {"done", "failed"}

\* C3: when the external process exits with a non-zero code, run() raises a
\* WorkerExecutionError carrying the worker's name, its pid and the captured
\* error output.
C3_NonZeroExitRaisesExecutionError ==
    \A w \in WorkerIds :
        (RunEnded(w) /\ worker[w].exit_code # None /\ worker[w].exit_code # Some(0)) =>
            /\ CapturedStderr(worker[w]) # None
            /\ worker[w].error =
                   Some(WorkerExecutionError(worker[w], CapturedStderr(worker[w])))

\* C4: whatever the exit code, once run() has ended exactly one message was put
\* on the worker's queue, and a finish() that has been called can consume it:
\* it has returned or a message is waiting for it.
C4_OneResultPerWorker ==
    \A w \in WorkerIds :
        RunEnded(w) =>
            /\ worker[w].puts = 1
            /\ worker[w].fpc = "waiting" => worker[w].queue # <<>>
            /\ worker[w].fpc = "returned" => worker[w].gets = 1

\* C5: a worker is never finished with exit code 0 while its post-processing
\* has raised: finished means the process exited 0 and _post_process did not fail.
C5_TwoPhaseAcceptance ==
    \A w \in WorkerIds :
        worker[w].finished =>
            /\ worker[w].exit_code = Some(0)
            /\ ~(worker[w].pc = "failed")

\* The lifecycle's forward moves.
LifecycleEdges ==
    {<<"created", "started">>, <<"started", "running">>,
     <<"running", "postprocessing">>, <<"running", "failed">>,
     <<"postprocessing", "done">>, <<"postprocessing", "failed">>}

\* C6: a worker only moves forward along created, started, running, then
\* postprocessing and done (finished), or failed; the process is spawned at most
\* once, _post_process begins only after exit code 0 and at most once, and a
\* worker whose process exited non-zero is failed, never ran _post_process and
\* never has finished set.
C6_LifecycleForward ==
    \A w \in WorkerIds :
        LET r == worker[w] IN
        /\ r.path[1] = "created"
        /\ r.path[Len(r.path)] = r.pc
        /\ \A i \in 1..(Len(r.path) - 1) : <<r.path[i], r.path[i + 1]>> \in LifecycleEdges
        /\ r.spawned <= 1
        /\ r.post_runs <= 1
        /\ r.post_runs = 1 => r.exit_code = Some(0)
        /\ r.pc \in {"postprocessing", "done"} => r.post_runs = 1
        /\ (r.exit_code # None /\ r.exit_code # Some(0)) =>
               /\ r.pc = "failed"
               /\ r.post_runs = 0
               /\ ~r.finished
               /\ r.subprocess_exit_code = None

\* C6's case: one worker failed on a non-zero exit code and another went
\* through post-processing, ended run() and was finished.
C6_Witness ==
    \E w1, w2 \in WorkerIds :
        /\ worker[w1].pc = "failed" /\ worker[w1].exit_code # Some(0)
        /\ worker[w1].exit_code # None
        /\ worker[w1].fpc = "waiting"
        /\ worker[w2].pc = "done" /\ worker[w2].finished

\* C20: a worker's finished is False and its subprocess_exit_code None until
\* finish() has taken a message from the worker's queue, and from then on
\* finished is True and subprocess_exit_code is 0; no worker ever records a
\* non-zero subprocess_exit_code and no message carries one.
C20_RecordedExitCodeIsZero ==
    \A w \in WorkerIds :
        /\ worker[w].gets = 0 =>
               worker[w].finished = FALSE /\ worker[w].subprocess_exit_code = None
        /\ worker[w].gets > 0 =>
               worker[w].finished = TRUE /\ worker[w].subprocess_exit_code = Some(0)
        /\ \A i \in DOMAIN worker[w].queue : worker[w].queue[i].exit_code = 0
        /\ worker[w].finished = (worker[w].fpc = "returned")

\* C20's case: finish() has taken the message of a worker whose process
\* exited with 0, while another worker's process exited non-zero and its
\* finish() is waiting on an empty queue.
C20_Witness ==
    \E v, w \in WorkerIds :
        /\ worker[v].gets = 1 /\ worker[v].subprocess_exit_code = Some(0)
        /\ worker[w].exit_code # None /\ worker[w].exit_code # Some(0)
        /\ worker[w].pc = "failed" /\ worker[w].fpc = "waiting"
        /\ worker[w].subprocess_exit_code = None

----------------------------------------------------------------------------
(***************************************************************************)
(* Worker.send_msg (pymsbayes/workers.py): every worker process logs       *)
(* through the module's one lock, _LOCK, the default of the lock argument. *)
(***************************************************************************)

\* Number of send_msg calls a worker makes.
MaxLogCalls == 2

\* The logger's methods, which send_debug, send_info, send_warning and
\* send_error name, and a method_str that names no method of the logger.
LogMethods == {"debug", "info", "warning", "error"}
MethodStrs == LogMethods \cup {"bogus"}

\* getattr(self.log, method_str) finds a method (else it raises AttributeError).
HasMethod(method_str) == method_str \in LogMethods

\* A lock that stays held when the log call raised (a release after the call
\* instead of in a finally clause).
ReleaseUnlessRaised(held, raised) == IF raised THEN held ELSE None

\* The lock after the try/finally of send_msg (lines 180-183): released,
\* whether or not the log call raised.
ReleaseInFinally(held, raised) == None

\*   pc          idle | acquiring (blocked in lock.acquire) | logging (inside the
\*               log call) | finally (the log call returned or raised)
\*   method_str  the argument of the call in progress
\*   raising     the call in progress raised in the log call
\*   calls, written, raised   calls begun, messages written to the sink, calls
\*               that ended by raising
NewSender ==
    [pc |-> "idle", method_str |-> None, raising |-> FALSE,
     calls |-> 0, written |-> 0, raised |-> 0]

LogInit ==
    /\ lock = None
    /\ sender = [w \in WorkerIds |-> NewSender]

\* send_msg is called (send_debug, send_info, send_warning and send_error call
\* it with their method_str); the message is formatted (line 178) and the
\* worker blocks in lock.acquire().
LogCall(w, method_str) ==
    /\ sender[w].pc = "idle"
    /\ sender[w].calls < MaxLogCalls
    /\ sender' = [sender EXCEPT ![w] =
           [@ EXCEPT !.pc = "acquiring", !.method_str = Some(method_str),
                     !.raising = FALSE, !.calls = @ + 1]]
    /\ UNCHANGED lock
    /\ LogFrame

\* lock.acquire() returns (line 179): the lock was free.
LogAcquire(w) ==
    /\ sender[w].pc = "acquiring"
    /\ lock = None
    /\ lock' = Some(w)
    /\ sender' = [sender EXCEPT ![w].pc = "logging"]
    /\ LogFrame

\* The log call (line 181): the logger's method writes the message to the
\* sink, or getattr raises for a method_str that names no method.
LogWrite(w) ==
    /\ sender[w].pc = "logging"
    /\ sender' = [sender EXCEPT ![w] =
           IF HasMethod(ValueOf(@.method_str))
           THEN [@ EXCEPT !.pc = "finally", !.written = @ + 1]
           ELSE [@ EXCEPT !.pc = "finally", !.raising = TRUE]]
    /\ UNCHANGED lock
    /\ LogFrame

\* The finally clause (lines 182-183), then send_msg returns or the error of
\* the log call propagates to its caller.
LogRelease(w) ==
    /\ sender[w].pc = "finally"
    /\ lock' = ReleaseInFinally(lock, sender[w].raising)
    /\ sender' = [sender EXCEPT ![w] =
           [@ EXCEPT !.pc = "idle", !.method_str = None, !.raising = FALSE,
                     !.raised = IF sender[w].raising THEN @ + 1 ELSE @]]
    /\ LogFrame

LogNext ==
    \E w \in WorkerIds :
        \/ \E method_str \in MethodStrs : LogCall(w, method_str)
        \/ LogAcquire(w)
        \/ LogWrite(w)
        \/ LogRelease(w)

SpecLogInit == LogInit /\ StatsIdle /\ WorkerIdle /\ CtorIdle /\ PoolIdle /\ CmdIdle /\ ClassifyIdle /\ PostIdle /\ CliIdle

SpecLog == SpecLogInit /\ [][LogNext]_vars

\* C7: at most one worker is inside the log call; a worker is inside the log
\* call or its finally clause exactly when it holds the lock, so every write is
\* made under the lock and the lock is free again after every send_msg call,
\* also one whose log call raised; every call that ended wrote or raised.
C7_LogLockDiscipline ==
    /\ Cardinality({w \in WorkerIds : sender[w].pc = "logging"}) <= 1
    /\ \A w \in WorkerIds :
           /\ (sender[w].pc \in {"logging", "finally"}) <=> (lock = Some(w))
           /\ sender[w].pc = "idle" =>
                  sender[w].written + sender[w].raised = sender[w].calls
    /\ (\A w \in WorkerIds : sender[w].pc \in {"idle", "acquiring"}) => lock = None

\* C7's case: a worker's log call raised and that send_msg has ended; another
\* worker, which has written before, holds the lock inside the log call while
\* the first worker's next call waits for the lock.
C7_Witness ==
    \E w1, w2 \in WorkerIds :
        /\ w1 # w2
        /\ sender[w1].raised >= 1
        /\ sender[w1].pc = "acquiring"
        /\ sender[w2].pc = "logging"
        /\ sender[w2].written >= 1

----------------------------------------------------------------------------
(***************************************************************************)
(* MsBayesWorker.__init__ (pymsbayes/workers.py), as called any number of  *)
(* times in one process with one TempFileSystem. The TempFileSystem class  *)
(* (pymsbayes/utils/tempfs.py) is modelled from its description: it hands  *)
(* out paths under a parent, made of the caller's prefix and a suffix of   *)
(* its own; create_subdir never returns a subdirectory that exists, and    *)
(* get_file_path(create = False) only names a file.                        *)
(***************************************************************************)

\* Number of constructor calls.
MaxCtorCalls == 3

\* The constructor's arguments.
SampleSizes == {1, 2}
Seeds == {0, 1}
SeedArgs == {None, Some(0)}
SchemaArgs == {"msreject", "MsReject", "abctoolbox"}

\* The suffixes the TempFileSystem may append to a subdirectory's prefix, and
\* the one it appends to a file's.
Suffixes == {"a", "b"}
FileSuffix == "f"

\* MsBayesWorker.valid_schemas (line 262).
valid_schemas == {"msreject"}

\* str.lower() on the schema names.
Lower(str) ==
    CASE str = "MsReject" -> "msreject"
      [] str = "MSREJECT" -> "msreject"
      [] str = "ABCToolbox" -> "abctoolbox"
      [] OTHER -> str

\* str() of a natural number: its decimal digits.
RECURSIVE Str(_)
Str(n) == IF n < 10 THEN <<n>> ELSE Append(Str(n \div 10), n % 10)

\* A schema test that compares the argument as it was given.
SchemaAsGivenIsValid(schema) == schema \in valid_schemas

\* "schema.lower() in self.valid_schemas" (line 309).
SchemaIsValid(schema) == Lower(schema) \in valid_schemas

\* A counter that is set on the first construction and not advanced after it.
CountOnce(c) == IF c = 0 THEN 1 ELSE c

\* "self.__class__.count += 1" (line 278).
CountUp(c) == c + 1

\* "'MsBayesWorker-' + str(self.count)" (line 279).
WorkerName(c) == <<"MsBayesWorker-">> \o Str(c)

\* The prefixes of the prior and the header file (lines 299-301, 305-307).
PriorPrefix(sample_size, seed) ==
    <<"prior-">> \o Str(sample_size) \o <<"-">> \o Str(seed) \o <<".">>
HeaderPrefix(sample_size, seed) ==
    <<"prior-">> \o Str(sample_size) \o <<"-">> \o Str(seed) \o <<"-header.">>

\* A path of the TempFileSystem: parent, prefix and suffix.
TempPath(parent, prefix, suffix) == [parent |-> parent, name |-> prefix \o <<suffix>>]

\* A command line that tests the indices for truth ("if self.sort_index:"), so
\* that an index of 0 counts as not given.
UpdateCmdIfTruthy(w) ==
    <<w.exe_path, "-r", Str(w.sample_size), "-c", w.config_path,
      "-o", w.prior_path, "-S", Str(w.seed)>>
    \o (IF w.sort_index # None /\ w.sort_index # Some(0)
        THEN <<"-s", Str(ValueOf(w.sort_index))>> ELSE <<>>)
    \o (IF w.model_index # None /\ w.model_index # Some(0)
        THEN <<"-m", Str(ValueOf(w.model_index))>> ELSE <<>>)
    \o (IF w.report_parameters THEN <<"-p">> ELSE <<>>)

\* _update_cmd (lines 322-334).
UpdateCmd(w) ==
    <<w.exe_path, "-r", Str(w.sample_size), "-c", w.config_path,
      "-o", w.prior_path, "-S", Str(w.seed)>>
    \o (IF w.sort_index # None THEN <<"-s", Str(ValueOf(w.sort_index))>> ELSE <<>>)
    \o (IF w.model_index # None THEN <<"-m", Str(ValueOf(w.model_index))>> ELSE <<>>)
    \o (IF w.report_parameters THEN <<"-p">> ELSE <<>>)

CtorInit ==
    /\ total = 0
    /\ count = 0
    /\ temp_dirs = {}
    /\ built = <<>>
    /\ last = None

\* MsBayesWorker(sample_size, config_path, seed = seed_arg, schema = schema,
\* temp_fs = ...) with a temp_fs that is a TempFileSystem, or is not; the other
\* arguments keep their defaults. get_random_int() returns `drawn`; the
\* TempFileSystem picks the subdirectory's suffix.
MsBayesWorkerInit(temp_fs_ok, sample_size, seed_arg, schema, drawn, s_dir) ==
    /\ total + 1 <= MaxCtorCalls
    /\ total' = total + 1
    /\ IF ~temp_fs_ok
       THEN \* Worker.__init__ raises (lines 165-167)
            /\ last' = Some([temp_fs_ok |-> temp_fs_ok, schema |-> schema,
                             raised |-> "ValueError: no TempFileSystem",
                             object |-> None])
            /\ UNCHANGED <<count, temp_dirs, built>>
       ELSE LET c == CountUp(count)
                name == WorkerName(c)
                output_dir == TempPath("temp_fs.base_dir", name, s_dir)
                seed == IF seed_arg = None THEN drawn ELSE ValueOf(seed_arg)
                w0 == [name |-> name,
                       counter |-> c,
                       sample_size |-> sample_size,
                       config_path |-> "config_path",
                       output_dir |-> output_dir,
                       exe_path |-> "msbayes.pl",
                       model_index |-> None,
                       sort_index |-> None,
                       report_parameters |-> TRUE,
                       seed |-> seed,
                       prior_path |->
                           TempPath(output_dir, PriorPrefix(sample_size, seed), FileSuffix),
                       header_path |->
                           TempPath(output_dir, HeaderPrefix(sample_size, seed), FileSuffix),
                       schema |-> Lower(schema),
                       cmd |-> <<>>,
                       finished |-> FALSE,
                       subprocess_exit_code |-> None]
                w == [w0 EXCEPT !.cmd = UpdateCmd(w0)]
            IN  /\ output_dir \notin temp_dirs
                /\ count' = c
                /\ temp_dirs' = temp_dirs \cup {output_dir}
                /\ IF SchemaIsValid(schema)
                   THEN /\ built' = Append(built, w)
                        /\ last' = Some([temp_fs_ok |-> temp_fs_ok, schema |-> schema,
                                         raised |-> "", object |-> Some(w)])
                   ELSE \* the constructor raises (lines 309-312)
                        /\ built' = built
                        /\ last' = Some([temp_fs_ok |-> temp_fs_ok, schema |-> schema,
                                         raised |-> "ValueError: schema is not valid",
                                         object |-> None])
    /\ CtorFrame

CtorNext ==
    \E temp_fs_ok \in BOOLEAN, sample_size \in SampleSizes, seed_arg \in SeedArgs,
       schema \in SchemaArgs, drawn \in Seeds, s_dir \in Suffixes :
        MsBayesWorkerInit(temp_fs_ok, sample_size, seed_arg, schema, drawn, s_dir)

SpecCtorInit == CtorInit /\ StatsIdle /\ WorkerIdle /\ LogIdle /\ PoolIdle /\ CmdIdle /\ ClassifyIdle /\ PostIdle /\ CliIdle

SpecCtor == SpecCtorInit /\ [][CtorNext]_vars

\* C8: no two constructed workers share a name, an output subdirectory, a
\* prior_path or a header_path, and the counter in their names strictly
\* increases in construction order, whatever the sample sizes and seeds and
\* whatever constructions were rejected in between.
C8_WorkersAreDistinct ==
    /\ \A i, j \in DOMAIN built :
           i < j =>
               /\ built[i].name # built[j].name
               /\ built[i].output_dir # built[j].output_dir
               /\ built[i].prior_path # built[j].prior_path
               /\ built[i].header_path # built[j].header_path
               /\ built[i].counter < built[j].counter
    /\ \A i \in DOMAIN built :
           /\ built[i].counter <= count
           /\ built[i].output_dir \in temp_dirs

\* C8's case: two workers constructed with the same sample size and the same
\* seed, with a rejected construction between them.
C8_Witness ==
    /\ Len(built) >= 2
    /\ built[1].sample_size = built[2].sample_size
    /\ built[1].seed = built[2].seed
    /\ built[2].counter > built[1].counter + 1

\* C9: a constructor call whose schema, lower-cased, is not in valid_schemas
\* raises ValueError and returns no worker (nothing to dispatch, no command
\* line built); a call with a TempFileSystem whose schema, lower-cased, is in
\* valid_schemas returns a worker that stores the lower-cased schema; so
\* every worker there is has a valid schema.
C9_SchemaCheckedAtConstruction ==
    last # None =>
        LET call == ValueOf(last) IN
        /\ Lower(call.schema) \notin valid_schemas =>
               /\ call.raised # ""
               /\ call.object = None
        /\ (Lower(call.schema) \in valid_schemas /\ call.temp_fs_ok) =>
               /\ call.raised = ""
               /\ call.object # None
               /\ ValueOf(call.object).schema = Lower(call.schema)
               /\ ValueOf(call.object).cmd # <<>>
               /\ built # <<>>
               /\ built[Len(built)] = ValueOf(call.object)
        /\ \A i \in DOMAIN built : built[i].schema \in valid_schemas

\* C9's case: the latest call passed the CLI's schema, 'abctoolbox', and was
\* rejected by the schema test, after a call with a mixed-case 'MsReject' had
\* been accepted.
C9_Witness ==
    /\ last # None
    /\ ValueOf(last).schema = "abctoolbox"
    /\ ValueOf(last).temp_fs_ok
    /\ ValueOf(last).raised = "ValueError: schema is not valid"
    /\ built # <<>>
    /\ count = Len(built) + 1

----------------------------------------------------------------------------
(***************************************************************************)
(* The command line of an MsBayesWorker: __init__ with a valid temp_fs and *)
(* schema, over the arguments that reach _update_cmd. get_random_int()     *)
(* is the process-wide random source; the model counts its calls.          *)
(***************************************************************************)

\* Number of constructions looked at.
MaxCmdCalls == 2

\* The model_index, sort_index and seed arguments: not given, 0, or 1.
IndexArgs == {None, Some(0), Some(1)}
CmdSeedArgs == {None, Some(0), Some(1)}

CmdInit ==
    /\ random_draws = 0
    /\ cmd_call = None

\* MsBayesWorker(sample_size, config_path, model_index = ..., sort_index = ...,
\* report_parameters = ..., seed = seed_arg, temp_fs = ...) (lines 264-320);
\* get_random_int(), when it is called, returns `drawn`.
MsBayesWorkerCmd(sample_size, seed_arg, model_index, sort_index, report_parameters, drawn) ==
    /\ (IF cmd_call = None THEN 0 ELSE ValueOf(cmd_call).call) < MaxCmdCalls
    /\ LET c == (IF cmd_call = None THEN 0 ELSE ValueOf(cmd_call).call) + 1
           name == WorkerName(c)
           output_dir == TempPath("temp_fs.base_dir", name, FileSuffix)
           seed == IF seed_arg = None THEN drawn ELSE ValueOf(seed_arg)
           w0 == [name |-> name,
                  sample_size |-> sample_size,
                  config_path |-> "config_path",
                  output_dir |-> output_dir,
                  exe_path |-> "msbayes.pl",
                  model_index |-> model_index,
                  sort_index |-> sort_index,
                  report_parameters |-> report_parameters,
                  seed |-> seed,
                  prior_path |->
                      TempPath(output_dir, PriorPrefix(sample_size, seed), FileSuffix),
                  header_path |->
                      TempPath(output_dir, HeaderPrefix(sample_size, seed), FileSuffix),
                  schema |-> "msreject",
                  cmd |-> <<>>]
           w == [w0 EXCEPT !.cmd = UpdateCmd(w0)]
       IN  /\ random_draws' = IF seed_arg = None THEN random_draws + 1 ELSE random_draws
           /\ cmd_call' = Some([call |-> c,
                                sample_size |-> sample_size,
                                seed_arg |-> seed_arg,
                                model_index |-> model_index,
                                sort_index |-> sort_index,
                                report_parameters |-> report_parameters,
                                drawn |-> drawn,
                                draws_before |-> random_draws,
                                object |-> w])
    /\ CmdFrame

CmdNext ==
    \E sample_size \in SampleSizes, seed_arg \in CmdSeedArgs, model_index \in IndexArgs,
       sort_index \in IndexArgs, report_parameters \in BOOLEAN, drawn \in Seeds :
        MsBayesWorkerCmd(sample_size, seed_arg, model_index, sort_index,
                         report_parameters, drawn)

SpecCmdInit == CmdInit /\ StatsIdle /\ WorkerIdle /\ LogIdle /\ CtorIdle /\ PoolIdle /\ ClassifyIdle /\ PostIdle /\ CliIdle /\ ClassifyIdle /\ PostIdle /\ CliIdle

SpecCmd == SpecCmdInit /\ [][CmdNext]_vars

\* C16: the command line of a constructed worker is fixed by the construction
\* arguments: the executable, -r <sample_size>, -c <config_path>,
\* -o <prior_path>, -S <seed>; then -s <sort_index> exactly when a sort index
\* was given (0 included), -m <model_index> exactly when a model index was
\* given (0 included), and -p exactly when report_parameters is true. A
\* supplied seed (0 included) is the one after -S; the random source is called
\* once when no seed was supplied and not at all otherwise.
C16_CommandLineFromArguments ==
    cmd_call # None =>
        LET a == ValueOf(cmd_call)
            w == a.object
            cmd == w.cmd
            s == IF a.sort_index # None THEN 2 ELSE 0
            m == IF a.model_index # None THEN 2 ELSE 0
            p == IF a.report_parameters THEN 1 ELSE 0
        IN  /\ Len(cmd) = 9 + s + m + p
            /\ SubSeq(cmd, 1, 8) = <<w.exe_path, "-r", Str(a.sample_size),
                                     "-c", w.config_path, "-o", w.prior_path, "-S">>
            /\ a.seed_arg # None => cmd[9] = Str(ValueOf(a.seed_arg))
            /\ a.seed_arg = None => cmd[9] = Str(a.drawn)
            /\ random_draws - a.draws_before = (IF a.seed_arg = None THEN 1 ELSE 0)
            /\ a.sort_index # None =>
                   cmd[10] = "-s" /\ cmd[11] = Str(ValueOf(a.sort_index))
            /\ a.model_index # None =>
                   cmd[10 + s] = "-m" /\ cmd[11 + s] = Str(ValueOf(a.model_index))
            /\ a.report_parameters => cmd[Len(cmd)] = "-p"
            /\ \A i \in 10..Len(cmd) :
                   /\ cmd[i] = "-s" => a.sort_index # None /\ i = 10
                   /\ cmd[i] = "-m" => a.model_index # None /\ i = 10 + s
                   /\ cmd[i] = "-p" => a.report_parameters /\ i = Len(cmd)

\* C16's case: a worker built with seed 0, sort index 0 and model index 0 given
\* and report_parameters false, after one built with no seed.
C16_Witness ==
    /\ cmd_call # None
    /\ ValueOf(cmd_call).seed_arg = Some(0)
    /\ ValueOf(cmd_call).sort_index = Some(0)
    /\ ValueOf(cmd_call).model_index = Some(0)
    /\ ~ValueOf(cmd_call).report_parameters
    /\ random_draws = 1
    /\ Len(ValueOf(cmd_call).object.cmd) = 13

----------------------------------------------------------------------------
(***************************************************************************)
(* The header patterns and the functions that classify a prior file's      *)
(* header (pymsbayes/workers.py, lines 27-153).                            *)
(*                                                                         *)
(* A column name is the sequence of its dot-separated parts, and a regular *)
(* expression is modelled by the names it matches.                         *)
(* get_indices_of_patterns is imported from pymsbayes.utils.functions: it  *)
(* gives, in ascending order, the indices of the names that match at      *)
(* least one pattern of the rule set. Indices count from 0, as Python's.   *)
(***************************************************************************)

\* Longest header drawn freely.
MaxColumns == 3

\* Parts that \d+ matches.
Digits == {"1", "2"}

\* Column names.
PRI_t_1 == <<"PRI", "t", "1">>
PRI_t_2 == <<"PRI", "t", "2">>
pi_1 == <<"pi", "1">>
wattTheta_1 == <<"wattTheta", "1">>
PRI_numTauClass == <<"PRI", "numTauClass">>
foo == <<"foo">>
Names == {PRI_t_1, PRI_t_2, pi_1, wattTheta_1, PRI_numTauClass, foo}

\* The header [PRI.t.1, PRI.t.2, pi.1, wattTheta.1, PRI.numTauClass].
ExampleHeader == <<PRI_t_1, PRI_t_2, pi_1, wattTheta_1, PRI_numTauClass>>

Headers == SeqsUpTo(Names, MaxColumns) \cup {ExampleHeader}

\* A parameter pattern without the negative lookahead: PRI\.\S+
ParameterPatternAnyPRI(name) == Len(name) >= 2 /\ name[1] = "PRI"

\* \s*PRI\.(?!numTauClass)\S+\s*$ (line 28).
ParameterPattern(name) ==
    Len(name) >= 2 /\ name[1] = "PRI" /\ name[2] # "numTauClass"

\* regex.match(name) for the patterns of lines 27-63 that the rule sets below hold.
Matches(regex, name) ==
    CASE regex = "PRI.(?!numTauClass)" -> ParameterPattern(name)
      [] regex = "pi.d" -> Len(name) >= 2 /\ name[1] = "pi" /\ name[2] \in Digits
      [] regex = "wattTheta.d" ->
             Len(name) >= 2 /\ name[1] = "wattTheta" /\ name[2] \in Digits
      [] regex = "pi.net.d" ->
             Len(name) >= 3 /\ name[1] = "pi" /\ name[2] = "net" /\ name[3] \in Digits
      [] regex = "tajD.denom.d" ->
             Len(name) >= 3 /\ name[1] = "tajD" /\ name[2] = "denom" /\ name[3] \in Digits
      [] regex = "(?!PRI)" -> name[1] # "PRI" /\ name[1] # ""
      [] regex = "PRI.numTauClass" ->
             Len(name) >= 2 /\ name[1] = "PRI" /\ name[2] = "numTauClass"
      [] regex = "PRI.t.d" ->
             Len(name) >= 3 /\ name[1] = "PRI" /\ name[2] = "t" /\ name[3] \in Digits

\* The rule sets (lines 27-44).
PARAMETER_PATTERNS == <<"PRI.(?!numTauClass)">>
DEFAULT_STAT_PATTERNS == <<"pi.d", "wattTheta.d", "pi.net.d", "tajD.denom.d">>
ALL_STAT_PATTERNS == <<"(?!PRI)">>
DUMMY_PATTERNS == <<"PRI.numTauClass">>
TAU_PATTERNS == <<"PRI.t.d">>

\* The rule sets a caller passes.
ParameterRuleSets == {PARAMETER_PATTERNS, TAU_PATTERNS}
StatRuleSets == {DEFAULT_STAT_PATTERNS, <<>>, TAU_PATTERNS}
DummyRuleSets == {DUMMY_PATTERNS, TAU_PATTERNS}

\* An ascending sequence of the numbers of a set.
RECURSIVE Ascending(_)
Ascending(S) ==
    IF S = {} THEN <<>>
    ELSE LET least == CHOOSE x \in S : \A y \in S : x <= y
         IN  <<least>> \o Ascending(S \ {least})

\* sorted(): a sequence of numbers in ascending order, repeated ones kept.
RECURSIVE Sorted(_)
Sorted(q) ==
    IF q = <<>> THEN <<>>
    ELSE LET rest == Sorted(Tail(q))
             below == SelectSeq(rest, LAMBDA y : y <= Head(q))
             above == SelectSeq(rest, LAMBDA y : y > Head(q))
         IN  below \o <<Head(q)>> \o above

get_indices_of_patterns(target_list, regex_list) ==
    Ascending({i - 1 : i \in {k \in DOMAIN target_list :
                   \E r \in DOMAIN regex_list : Matches(regex_list[r], target_list[k])}})

\* Lines 77-86.
get_parameter_indices(header_list, parameter_patterns) ==
    get_indices_of_patterns(header_list, parameter_patterns)
get_stat_indices(header_list, stat_patterns) ==
    get_indices_of_patterns(header_list,
        IF stat_patterns = <<>> THEN ALL_STAT_PATTERNS ELSE stat_patterns)
get_dummy_indices(header_list, dummy_patterns) ==
    get_indices_of_patterns(header_list, dummy_patterns)

\* [header[i] for i in indices]
Select(header, indices) == [k \in DOMAIN indices |-> header[indices[k] + 1]]

\* prior_for_msreject (lines 137-153): the indices it hands to reduce_columns
\* and the header it returns. The dummy indices are those of DUMMY_PATTERNS,
\* whatever dummy_patterns is (line 146).
prior_for_msreject(header, stat_patterns, parameter_patterns, dummy_patterns) ==
    LET indices == get_parameter_indices(header, parameter_patterns)
                   \o get_stat_indices(header, stat_patterns)
                   \o get_dummy_indices(header, DUMMY_PATTERNS)
    IN  [indices |-> Sorted(indices), header |-> Select(header, Sorted(indices))]

ClassifyInit ==
    /\ \E header \in Headers, parameter_patterns \in ParameterRuleSets,
          stat_patterns \in StatRuleSets, dummy_patterns \in DummyRuleSets :
           table = Some([header |-> header,
                         parameter_patterns |-> parameter_patterns,
                         stat_patterns |-> stat_patterns,
                         dummy_patterns |-> dummy_patterns])
    /\ classes = None
    /\ projection = None

\* get_parameter_indices, get_stat_indices and get_dummy_indices on the header.
Classify ==
    /\ classes = None
    /\ LET t == ValueOf(table)
       IN  classes' = Some(
               [parameter |-> get_parameter_indices(t.header, t.parameter_patterns),
                stat |-> get_stat_indices(t.header, t.stat_patterns),
                dummy |-> get_dummy_indices(t.header, t.dummy_patterns)])
    /\ UNCHANGED <<table, projection>>
    /\ ClassifyFrame

\* prior_for_msreject on the table.
PriorForMsreject ==
    /\ projection = None
    /\ LET t == ValueOf(table)
       IN  projection' = Some(prior_for_msreject(t.header, t.stat_patterns,
                                                 t.parameter_patterns, t.dummy_patterns))
    /\ UNCHANGED <<table, classes>>
    /\ ClassifyFrame

ClassifyNext == Classify \/ PriorForMsreject

SpecClassifyInit ==
    ClassifyInit /\ StatsIdle /\ WorkerIdle /\ LogIdle /\ CtorIdle /\ PoolIdle /\ CmdIdle /\ PostIdle /\ CliIdle

SpecClassify == SpecClassifyInit /\ [][ClassifyNext]_vars

\* The numbers of a sequence, as a set.
Range(q) == {q[i] : i \in DOMAIN q}

\* How many times x occurs in q.
Occurrences(q, x) == Cardinality({i \in DOMAIN q : q[i] = x})

\* C13: the index list prior_for_msreject projects onto is strictly ascending,
\* so no column is selected twice, and no name occurs more often in the
\* returned header than in the input header, for every header and every
\* choice of rule sets, those where a name matches both a parameter and a
\* stat rule included.
C13_ProjectionIsSortedSet ==
    projection # None =>
        LET p == ValueOf(projection)
            t == ValueOf(table)
        IN  /\ \A i, j \in DOMAIN p.indices : i < j => p.indices[i] < p.indices[j]
            /\ \A name \in Names :
                   Occurrences(p.header, name) <= Occurrences(t.header, name)

\* C14: with PARAMETER_PATTERNS, DEFAULT_STAT_PATTERNS and DUMMY_PATTERNS the
\* header [PRI.t.1, PRI.t.2, pi.1, wattTheta.1, PRI.numTauClass] has parameter
\* indices {0,1}, stat indices {2,3} and dummy indices {4}: pairwise disjoint,
\* and covering the header's columns.
C14_ExampleHeaderClasses ==
    (/\ classes # None
     /\ ValueOf(table).header = ExampleHeader
     /\ ValueOf(table).parameter_patterns = PARAMETER_PATTERNS
     /\ ValueOf(table).stat_patterns = DEFAULT_STAT_PATTERNS
     /\ ValueOf(table).dummy_patterns = DUMMY_PATTERNS) =>
        LET c == ValueOf(classes)
        IN  /\ c.parameter = <<0, 1>>
            /\ c.stat = <<2, 3>>
            /\ c.dummy = <<4>>
            /\ Range(c.parameter) \cap Range(c.stat) = {}
            /\ Range(c.parameter) \cap Range(c.dummy) = {}
            /\ Range(c.stat) \cap Range(c.dummy) = {}
            /\ Range(c.parameter) \cup Range(c.stat) \cup Range(c.dummy)
                   = 0..(Len(ExampleHeader) - 1)

\* C14's case: the example header has been classified with the built-in rule sets.
C14_Witness ==
    /\ classes # None
    /\ ValueOf(table).header = ExampleHeader
    /\ ValueOf(table).parameter_patterns = PARAMETER_PATTERNS
    /\ ValueOf(table).stat_patterns = DEFAULT_STAT_PATTERNS
    /\ ValueOf(table).dummy_patterns = DUMMY_PATTERNS
    /\ Len(ValueOf(classes).parameter) = 2

----------------------------------------------------------------------------
(***************************************************************************)
(* MsBayesWorker._post_process and _finish (pymsbayes/workers.py, lines    *)
(* 336-363) on the file the subprocess wrote at prior_path.                *)
(*                                                                         *)
(* A table file is the sequence of its lines, a line the sequence of its   *)
(* tab-separated fields; the table has a header line and one data row      *)
(* whose fields are the column numbers, or is empty. The header file is    *)
(* modelled character by character as far as its delimiters go: a         *)
(* sequence of names, tabs and newlines. reduce_columns is imported from   *)
(* pymsbayes.utils.functions: it writes the selected fields of every row   *)
(* and fails on a row that is shorter than a selected index.               *)
(***************************************************************************)

TAB == <<"\t">>
NEWLINE == <<"\n">>

\* '\t'.join(fields)
RECURSIVE JoinTabs(_)
JoinTabs(fields) ==
    IF fields = <<>> THEN <<>>
    ELSE IF Len(fields) = 1 THEN <<fields[1]>>
    ELSE <<fields[1], TAB>> \o JoinTabs(Tail(fields))

\* '{0}\n'.format('\t'.join(header)) (line 349).
HeaderLine(header) == JoinTabs(header) \o <<NEWLINE>>

\* text.strip(): the newlines at both ends removed.
RECURSIVE Strip(_)
Strip(text) ==
    IF text = <<>> THEN <<>>
    ELSE IF Head(text) = NEWLINE THEN Strip(Tail(text))
    ELSE IF text[Len(text)] = NEWLINE THEN Strip(SubSeq(text, 1, Len(text) - 1))
    ELSE text

\* text.split('\t'): the fields between the tabs; a field is one name here, or
\* the empty string.
RECURSIVE SplitTabs(_)
SplitTabs(text) ==
    IF text = <<>> THEN <<<<"">>>>
    ELSE IF Head(text) = TAB THEN <<<<"">>>> \o SplitTabs(Tail(text))
    ELSE IF Len(text) = 1 THEN <<text[1]>>
    ELSE IF text[2] = TAB THEN <<text[1]>> \o SplitTabs(SubSeq(text, 3, Len(text)))
    ELSE <<text[1]>> \o SplitTabs(Tail(text))

\* The data row under a header: the column numbers, all of them or all but the last.
DataRow(header, truncated) ==
    [k \in 1..(Len(header) - (IF truncated THEN 1 ELSE 0)) |-> k - 1]

\* The file msbayes.pl wrote: empty, or a header line and a data row.
RawTable(header, truncated) == <<header, DataRow(header, truncated)>>
EmptyFile == <<>>

\* reduce_columns(in_file, out_file, indices): a row is too short for the indices.
RowTooShort(row, indices) == \E k \in DOMAIN indices : indices[k] >= Len(row)

PostInit ==
    \E header \in Headers, truncated, empty \in BOOLEAN,
       parameter_patterns \in ParameterRuleSets, stat_patterns \in StatRuleSets :
        /\ disk = Some([prior |-> Some(IF empty THEN EmptyFile
                                       ELSE RawTable(header, truncated)),
                        raw |-> None,
                        header_file |-> None])
        /\ msw = Some([schema |-> "msreject",
                       stat_patterns |-> stat_patterns,
                       parameter_patterns |-> parameter_patterns,
                       header |-> None,
                       parameter_indices |-> None,
                       stat_indices |-> None,
                       selected |-> None,
                       pc |-> "ran",
                       error |-> ""])

\* _post_process (lines 336-352), with prior_for_msreject's reading and
\* writing of the files (lines 142-152).
PostProcess ==
    /\ msw # None /\ ValueOf(msw).pc = "ran"
    /\ LET w == ValueOf(msw)
           d == ValueOf(disk)
           raw == ValueOf(d.prior)
           moved == [d EXCEPT !.raw = d.prior, !.prior = None]
       IN  IF raw = EmptyFile
           THEN \* parse_header: file_stream.next() on an empty file (line 66)
                /\ disk' = Some(moved)
                /\ msw' = Some([w EXCEPT !.pc = "post_process_raised",
                                         !.error = "StopIteration"])
           ELSE LET p == prior_for_msreject(raw[1], w.stat_patterns,
                                            w.parameter_patterns, DUMMY_PATTERNS)
                IN  IF RowTooShort(raw[2], p.indices)
                    THEN /\ disk' = Some(moved)
                         /\ msw' = Some([w EXCEPT !.pc = "post_process_raised",
                                                  !.error = "reduce_columns failed"])
                    ELSE /\ disk' = Some(
                                [prior |-> Some(<<Select(raw[2], p.indices)>>),
                                 raw |-> None,
                                 header_file |->
                                     IF p.header # <<>>
                                     THEN Some(HeaderLine(p.header))
                                     ELSE None])
                         /\ msw' = Some([w EXCEPT !.pc = "post_processed",
                                                  !.selected = Some(p.indices)])
    /\ PostFrame

\* _finish (lines 354-363), which finish() calls after the result message.
Finish ==
    /\ msw # None /\ ValueOf(msw).pc = "post_processed"
    /\ LET w == ValueOf(msw)
           d == ValueOf(disk)
       IN  IF d.header_file = None
           THEN \* open(self.header_path, 'rU') (line 355)
                msw' = Some([w EXCEPT !.pc = "finish_raised",
                                      !.error = "IOError: No such file or directory"])
           ELSE LET header == SplitTabs(Strip(ValueOf(d.header_file)))
                IN  msw' = Some([w EXCEPT
                        !.pc = "finished",
                        !.header = Some(header),
                        !.parameter_indices =
                            Some(get_parameter_indices(header, PARAMETER_PATTERNS)),
                        !.stat_indices =
                            Some(get_stat_indices(header, ALL_STAT_PATTERNS))])
    /\ UNCHANGED disk
    /\ PostFrame

PostNext == PostProcess \/ Finish

SpecPostInit ==
    PostInit /\ StatsIdle /\ WorkerIdle /\ LogIdle /\ CtorIdle /\ PoolIdle /\ CmdIdle
        /\ ClassifyIdle /\ CliIdle

SpecPost == SpecPostInit /\ [][PostNext]_vars

\* _post_process has returned without raising.
PostProcessed == msw # None /\ ValueOf(msw).pc \in {"post_processed", "finished", "finish_raised"}

\* C15: once _post_process has completed without error, whatever the header
\* line of the raw output was, the header file exists and holds one line: the
\* names of the selected columns in ascending original index order, separated
\* by tabs and ended by the only newline; and _finish, which reads the file,
\* does not fail.
C15_HeaderFileAfterPostProcess ==
    PostProcessed =>
        LET w == ValueOf(msw)
            d == ValueOf(disk)
        IN  /\ d.header_file # None
            /\ LET text == ValueOf(d.header_file)
                   indices == ValueOf(w.selected)
               IN  /\ Len(text) = 2 * Len(indices)
                   /\ \A k \in DOMAIN indices :
                          /\ text[2 * k - 1] \in Names
                          /\ text[2 * k] = (IF k = Len(indices) THEN NEWLINE ELSE TAB)
                   /\ \A i, j \in DOMAIN indices : i < j => indices[i] <= indices[j]
            /\ w.pc # "finish_raised"

----------------------------------------------------------------------------
(***************************************************************************)
(* Manager.run_workers(workers, num_processors), which dmc.py calls        *)
(* (lines 404-406, 450-453). The Manager class (pymsbayes/manager.py) is   *)
(* modelled from its description: a live set bounded by num_processors;    *)
(* whenever a worker finishes, the next queued worker is admitted; the     *)
(* call returns once every submitted worker has completed; the first       *)
(* worker to raise stops the admissions and, once the started workers are  *)
(* drained, its error is raised to the caller.                             *)
(***************************************************************************)

\* Largest num_processors, longest list of submitted workers.
MaxProcessors == 2
MaxSubmitted == 4

\* The workers of a job list of length n.
Submitted == DOMAIN job

\* The workers that occupy a slot: their child process is alive.
Live == {w \in Submitted : job[w] \in {"active", "postprocessing"}}

\* The workers whose external process is running.
Active == {w \in Submitted : job[w] = "active"}

\* An admission test that lets one worker too many in.
HasSlotOffByOne(live, num_processors) == Cardinality(live) <= num_processors

\* A slot is free.
HasSlot(live, num_processors) == Cardinality(live) < num_processors

\* A return as soon as no worker is left to admit.
MayReturnWhenQueueEmpty(pending, live, states) == pending = <<>>

\* run_workers may return: nothing is queued, nothing is live, nothing raised.
MayReturn(pending, live, states) ==
    /\ pending = <<>>
    /\ live = {}
    /\ \A w \in DOMAIN states : states[w] = "completed"

\* dmc.py calls run_workers with a list of workers and args.np.
PoolInit ==
    \E k \in 1..MaxProcessors, n \in 0..MaxSubmitted :
        /\ manager = Some([num_processors |-> k,
                           pending |-> [i \in 1..n |-> i],
                           status |-> "running"])
        /\ job = [w \in 1..n |-> "queued"]

Mgr == ValueOf(manager)

\* No worker has raised so far.
NoneRaised == \A w \in Submitted : job[w] # "raised"

\* A slot is free: the next queued worker is started.
PoolAdmit ==
    /\ Mgr.status = "running"
    /\ Mgr.pending # <<>>
    /\ NoneRaised
    /\ HasSlot(Live, Mgr.num_processors)
    /\ job' = [job EXCEPT ![Head(Mgr.pending)] = "active"]
    /\ manager' = Some([Mgr EXCEPT !.pending = Tail(@)])
    /\ PoolFrame

\* A worker's external process exits with code 0; its post-processing begins.
PoolProcessExit(w) ==
    /\ job[w] = "active"
    /\ job' = [job EXCEPT ![w] = "postprocessing"]
    /\ UNCHANGED manager
    /\ PoolFrame

\* A worker's external process exits non-zero: the worker raises.
PoolProcessFail(w) ==
    /\ job[w] = "active"
    /\ job' = [job EXCEPT ![w] = "raised"]
    /\ UNCHANGED manager
    /\ PoolFrame

\* A worker's post-processing ends and its result is drained: it has completed.
PoolComplete(w) ==
    /\ job[w] = "postprocessing"
    /\ job' = [job EXCEPT ![w] = "completed"]
    /\ UNCHANGED manager
    /\ PoolFrame

\* A worker's post-processing raises.
PoolPostProcessFail(w) ==
    /\ job[w] = "postprocessing"
    /\ job' = [job EXCEPT ![w] = "raised"]
    /\ UNCHANGED manager
    /\ PoolFrame

\* run_workers returns the completed workers.
PoolReturn ==
    /\ Mgr.status = "running"
    /\ MayReturn(Mgr.pending, Live, job)
    /\ manager' = Some([Mgr EXCEPT !.status = "returned"])
    /\ UNCHANGED job
    /\ PoolFrame

\* A worker has raised and the started workers are drained: run_workers raises
\* the error to its caller.
PoolRaise ==
    /\ Mgr.status = "running"
    /\ ~NoneRaised
    /\ Live = {}
    /\ manager' = Some([Mgr EXCEPT !.status = "raised"])
    /\ UNCHANGED job
    /\ PoolFrame

PoolNext ==
    \/ PoolAdmit
    \/ \E w \in Submitted : PoolProcessExit(w)
    \/ \E w \in Submitted : PoolProcessFail(w)
    \/ \E w \in Submitted : PoolComplete(w)
    \/ \E w \in Submitted : PoolPostProcessFail(w)
    \/ PoolReturn
    \/ PoolRaise

SpecPoolInit == PoolInit /\ StatsIdle /\ WorkerIdle /\ LogIdle /\ CtorIdle /\ CmdIdle /\ ClassifyIdle /\ PostIdle /\ CliIdle

SpecPool == SpecPoolInit /\ [][PoolNext]_vars

\* C1: at no time are more than num_processors external processes active (nor
\* more than num_processors workers live), however many workers were submitted.
C1_AtMostKActive ==
    /\ Cardinality(Active) <= Mgr.num_processors
    /\ Cardinality(Live) <= Mgr.num_processors

\* C1's case: more workers submitted than num_processors, num_processors of
\* them active at once, one waiting in the queue and one already completed.
C1_Witness ==
    /\ Cardinality(Submitted) > Mgr.num_processors
    /\ Mgr.num_processors >= 2
    /\ Cardinality(Active) = Mgr.num_processors
    /\ Mgr.pending # <<>>
    /\ \E w \in Submitted : job[w] = "completed"

\* C2: when run_workers has returned, every submitted worker has completed or
\* raised: none is queued, active or post-processing.
C2_ReturnsOnlyWhenAllDone ==
    Mgr.status = "returned" =>
        /\ Mgr.pending = <<>>
        /\ \A w \in Submitted : job[w] \in {"completed", "raised"}

\* C2's case: run_workers has returned from a list longer than num_processors.
C2_Witness ==
    /\ Mgr.status = "returned"
    /\ Cardinality(Submitted) > Mgr.num_processors
    /\ \A w \in Submitted : job[w] = "completed"

----------------------------------------------------------------------------
(***************************************************************************)
(* The observed-data stage and the analysis stage of dmc.py's main_cli     *)
(* (scripts/dmc.py, lines 306-516).                                        *)
(*                                                                         *)
(* The driver's control flow is from dmc.py. What it calls is outside the  *)
(* driver and is modelled by its outcome: a TempFileSystem is live until   *)
(* purge() is called on it; long_division(a, b) is the quotient and the    *)
(* remainder; a worker constructor, Manager.run_workers and the ABCTeam    *)
(* either return or raise; a finished worker's prior file holds one row    *)
(* per sample, or one row fewer; merge_prior_files writes the rows of the  *)
(* files it is given and line_count counts them. No statement of main_cli  *)
(* catches an exception, so a raise ends the run where it happens.         *)
(***************************************************************************)

\* Largest --reps, largest --np, most observed configs.
MaxReps == 3
MaxNp == 2
MaxConfigs == 2

\* min([a, b])
Min(a, b) == IF a <= b THEN a ELSE b

\* long_division(dividend, divisor): quotient and remainder.
long_division(dividend, divisor) == <<dividend \div divisor, dividend % divisor>>

\* num_observed_workers (line 410).
NumObservedWorkers(reps, np) == Min(reps, np)

\* observed_batch_size (lines 411-415).
ObservedBatchSize(reps, np) == IF reps <= np THEN 1 ELSE long_division(reps, np)[1]

\* A remainder that is dropped.
NoRemainder(reps, np) == 0

\* remainder (lines 411-415).
Remainder(reps, np) == IF reps <= np THEN 0 ELSE long_division(reps, np)[2]

\* The workers built for the config with index idx (lines 420-448).
WorkersOfConfig(idx, reps, np) ==
    [i \in 1..NumObservedWorkers(reps, np) |->
        [sample_size |-> ObservedBatchSize(reps, np), tag |-> idx]]
    \o (IF Remainder(reps, np) > 0
        THEN <<[sample_size |-> Remainder(reps, np), tag |-> idx]>>
        ELSE <<>>)

\* msbayes_workers after the loop over the configs with indices idx..n-1.
RECURSIVE WorkersFrom(_, _, _, _)
WorkersFrom(idx, n, reps, np) ==
    IF idx >= n THEN <<>>
    ELSE WorkersOfConfig(idx, reps, np) \o WorkersFrom(idx + 1, n, reps, np)

\* line_count(observed_paths[i], ignore_headers = True) after merge_prior_files
\* on the prior files of the workers tagged i (lines 461-464).
MergedLineCount(workers, i) ==
    SumOf([k \in DOMAIN workers |-> IF workers[k].tag = i THEN workers[k].rows ELSE 0])

\* A row count that is not compared with reps.
CountUnchecked(lc, reps) == TRUE

\* "if lc != args.reps: raise" (line 465) negated.
CountMatches(lc, reps) == lc = reps

\* The run after its arguments are parsed, before line 306.
CliInit ==
    /\ \E reps \in 0..MaxReps, np \in 1..MaxNp, configs \in 1..MaxConfigs,
          keep_temps \in BOOLEAN :
           cli = Some([reps |-> reps, np |-> np, configs |-> configs,
                       keep_temps |-> keep_temps,
                       pc |-> "start",
                       msbayes_workers |-> <<>>,
                       i |-> 0,
                       lc |-> <<>>,
                       abc_started |-> FALSE,
                       error |-> ""])
    /\ storage = Some([temp_fs |-> "absent", observed_temp_fs |-> "absent"])

\* The run is at position p.
CliAt(p) == cli # None /\ ValueOf(cli).pc = p

\* The run moved to position p / ended by raising.
CliGo(c, p) == Some([c EXCEPT !.pc = p])
CliRaise(c, error) == Some([c EXCEPT !.pc = "raised", !.error = error])

\* Lines 306 and 389-390: the two TempFileSystems are created.
CliCreateTemps ==
    /\ CliAt("start")
    /\ storage' = Some([temp_fs |-> "live", observed_temp_fs |-> "live"])
    /\ cli' = CliGo(ValueOf(cli), "observed")
    /\ CliFrame

\* Lines 392-448: the workers of the observed stage are constructed, the
\* ObsSumStatsWorkers when reps < 1 (not kept: they are not merged), else the
\* MsBayesWorkers; or a constructor raises.
CliBuildWorkers(constructed) ==
    /\ CliAt("observed")
    /\ LET c == ValueOf(cli)
       IN  cli' = IF ~constructed THEN CliRaise(c, "ValueError")
                  ELSE IF c.reps < 1 THEN CliGo(c, "run_workers")
                  ELSE CliGo([c EXCEPT !.msbayes_workers =
                                  WorkersFrom(0, c.configs, c.reps, c.np)],
                             "run_workers")
    /\ UNCHANGED storage
    /\ CliFrame

\* Lines 404-406 and 451-453: Manager.run_workers returns the finished workers,
\* of which at most the one at position `short` wrote a row fewer than its
\* sample size; or it raises a worker's error.
CliRunWorkers(returned, short) ==
    /\ CliAt("run_workers")
    /\ LET c == ValueOf(cli)
           ran == [k \in DOMAIN c.msbayes_workers |->
                      [sample_size |-> c.msbayes_workers[k].sample_size,
                       tag |-> c.msbayes_workers[k].tag,
                       rows |-> c.msbayes_workers[k].sample_size
                                    - (IF k = short THEN 1 ELSE 0)]]
       IN  /\ short \in {0} \cup DOMAIN c.msbayes_workers
           /\ ~returned => short = 0
           /\ cli' = IF ~returned THEN CliRaise(c, "WorkerExecutionError")
                      ELSE IF c.reps < 1 THEN CliGo(c, "purge_observed")
                      ELSE CliGo([c EXCEPT !.msbayes_workers = ran], "merge")
    /\ UNCHANGED storage
    /\ CliFrame

\* Lines 461-470, one turn of the loop: the prior files of config i are merged
\* and the rows counted; a count other than reps raises.
CliMerge ==
    /\ CliAt("merge")
    /\ LET c == ValueOf(cli)
           lc == MergedLineCount(c.msbayes_workers, c.i)
           counted == [c EXCEPT !.lc = Append(@, lc), !.i = @ + 1]
       IN  cli' = IF ~CountMatches(lc, c.reps)
                  THEN CliRaise(counted, "Exception: number of observed simulations")
                  ELSE IF c.i + 1 < c.configs THEN Some(counted)
                  ELSE CliGo(counted, "purge_observed")
    /\ UNCHANGED storage
    /\ CliFrame

\* Lines 471-473.
CliPurgeObserved ==
    /\ CliAt("purge_observed")
    /\ storage' = IF ~ValueOf(cli).keep_temps
                  THEN Some([ValueOf(storage) EXCEPT !.observed_temp_fs = "purged"])
                  ELSE storage
    /\ cli' = CliGo(ValueOf(cli), "abc")
    /\ CliFrame

\* Lines 478-504: the ABCTeam is constructed and run; it returns or raises.
CliAbcTeam(returned) ==
    /\ CliAt("abc")
    /\ LET c == [ValueOf(cli) EXCEPT !.abc_started = TRUE]
       IN  cli' = IF returned THEN CliGo(c, "purge") ELSE CliRaise(c, "ABCTeam error")
    /\ UNCHANGED storage
    /\ CliFrame

\* Lines 514-516.
CliPurge ==
    /\ CliAt("purge")
    /\ storage' = IF ~ValueOf(cli).keep_temps
                  THEN Some([ValueOf(storage) EXCEPT !.temp_fs = "purged"])
                  ELSE storage
    /\ cli' = CliGo(ValueOf(cli), "done")
    /\ CliFrame

CliNext ==
    \/ CliCreateTemps
    \/ \E constructed \in BOOLEAN : CliBuildWorkers(constructed)
    \/ \E returned \in BOOLEAN, short \in 0..((MaxNp + 1) * MaxConfigs) :
           CliRunWorkers(returned, short)
    \/ CliMerge
    \/ CliPurgeObserved
    \/ \E returned \in BOOLEAN : CliAbcTeam(returned)
    \/ CliPurge

SpecCliInit ==
    CliInit /\ StatsIdle /\ WorkerIdle /\ LogIdle /\ CtorIdle /\ PoolIdle /\ CmdIdle
        /\ ClassifyIdle /\ PostIdle

SpecCli == SpecCliInit /\ [][CliNext]_vars

\* The observed workers have been constructed, for a run with reps >= 1.
WorkersBuilt ==
    /\ cli # None
    /\ ValueOf(cli).reps >= 1
    /\ ValueOf(cli).pc \in {"run_workers", "merge", "purge_observed", "abc", "purge", "done"}

\* The workers of msbayes_workers tagged idx.
Tagged(idx) ==
    {k \in DOMAIN ValueOf(cli).msbayes_workers : ValueOf(cli).msbayes_workers[k].tag = idx}

\* The run has ended, by returning or by raising.
CliEnded == cli # None /\ ValueOf(cli).pc \in {"done", "raised"}

\* C17: the analysis stage (the ABCTeam) is started only when, for every
\* observed config, the merged file's row count equals reps; a merged file
\* with another row count ends the run with an error before that stage.
C17_AnalysisOnlyAfterCountsMatch ==
    cli # None =>
        LET c == ValueOf(cli)
        IN  /\ (c.abc_started /\ c.reps >= 1) =>
                   /\ Len(c.lc) = c.configs
                   /\ \A i \in DOMAIN c.lc : c.lc[i] = c.reps
            /\ (\E i \in DOMAIN c.lc : c.lc[i] # c.reps) =>
                   /\ c.pc = "raised"
                   /\ ~c.abc_started

\* C17's case: the first config's merged file had reps rows, the second one
\* had not, and the run has ended with the error.
C17_Witness ==
    /\ cli # None
    /\ Len(ValueOf(cli).lc) = 2
    /\ ValueOf(cli).lc[1] = ValueOf(cli).reps
    /\ ValueOf(cli).lc[2] # ValueOf(cli).reps
    /\ ValueOf(cli).pc = "raised"

\* C18: when keep-temps was not requested, both TempFileSystems of the run
\* have been purged once the run has ended, however it ended.
C18_TempsPurgedOnEveryEnd ==
    (CliEnded /\ ~ValueOf(cli).keep_temps) =>
        /\ ValueOf(storage).temp_fs = "purged"
        /\ ValueOf(storage).observed_temp_fs = "purged"

\* C19: for reps >= 1 and each observed config, the sample sizes of the config's
\* workers sum to reps, each is at least 1, and there are min(reps, np) workers
\* plus one more exactly when reps > np and reps is not a multiple of np.
C19_WorkersCoverReps ==
    WorkersBuilt =>
        LET c == ValueOf(cli)
        IN  \A idx \in 0..(c.configs - 1) :
                /\ SumOf([k \in DOMAIN c.msbayes_workers |->
                             IF k \in Tagged(idx)
                             THEN c.msbayes_workers[k].sample_size ELSE 0]) = c.reps
                /\ \A k \in Tagged(idx) : c.msbayes_workers[k].sample_size >= 1
                /\ Cardinality(Tagged(idx)) =
                       Min(c.reps, c.np)
                       + (IF c.reps > c.np /\ c.reps % c.np # 0 THEN 1 ELSE 0)

\* C19's case: reps = 3 on 2 processors, two configs: three workers each.
C19_Witness ==
    /\ WorkersBuilt
    /\ ValueOf(cli).reps = 3 /\ ValueOf(cli).np = 2 /\ ValueOf(cli).configs = 2
    /\ Len(ValueOf(cli).msbayes_workers) = 6

====
